---- MODULE Spec2Model ----
(***************************************************************************)
(* The cache-backed API fetch layer of eigenwallet/vision-ng:              *)
(*   src/src/lib/cache.ts      getCache / setCache (disk cache with TTL)   *)
(*   src/src/lib/fetch.ts      fetchWithRetry (bounded retry, backoff)     *)
(*   src/src/lib/liquidity.ts  accessors built on cache + fetchWithRetry   *)
(*   src/src/lib/downloads.ts  accessors built on cache + plain fetch      *)
(*                                                                         *)
(* JavaScript values are records tagged by t; values of different shapes   *)
(* have different fields.  Times are milliseconds, as Date.now() gives.    *)
(***************************************************************************)
EXTENDS Integers, Sequences, FiniteSets, TLC

(***************************************************************************)
(* Bounds of the model.                                                    *)
(***************************************************************************)
MaxItems == 2      \* longest array a payload carries
MaxCalls == 2      \* calls made in one behaviour
MaxTicks == 1      \* clock advances between calls in one behaviour
MaxRetries == 3    \* largest retry count passed or configured

(***************************************************************************)
(* Program constants.                                                      *)
(***************************************************************************)
CACHE_DURATION_MS == 10 * 60 * 1000
BACKOFF_MS == 1000

(***************************************************************************)
(* JavaScript / JSON values.                                               *)
(***************************************************************************)
JNull == [t |-> "null"]
JObj == [t |-> "object"]              \* a JSON object without the expected fields
JArr(items) == [t |-> "array", items |-> items]
JStr(s) == [t |-> "string", s |-> s]
Malformed == [t |-> "malformed"]      \* a body that is not JSON
NoBody == [t |-> "nobody"]            \* the body of a response nobody decodes
Raised == [t |-> "raised"]            \* an exception that left the function
None == [t |-> "none"]

\* JavaScript truthiness of the values the accessors test with if (cached).
Truthy(v) ==
  CASE v.t = "null" -> FALSE
    [] v.t = "string" -> v.s # ""
    [] v.t = "none" -> FALSE
    [] OTHER -> TRUE

SeqsUpTo(S, n) == UNION {[1..k -> S] : k \in 0..n}

(***************************************************************************)
(* cache.ts                                                                *)
(***************************************************************************)
CacheKeys ==
  {"github-release-latest", "liquidity-daily", "offers-list",
   "provider-quote-stats", "provider-daily-swap-bounds", "daily-price-stats",
   "aur-eigenwallet-bin", "aur-eigenwallet-developertools-bin"}

\* The content of .cache/<key>.json.
Absent == [t |-> "absent"]
Corrupt == [t |-> "corrupt"]          \* text JSON.parse rejects
\* JSON.stringify({data, timestamp}) as written by setCache.
CachedData(data, timestamp) ==
  [t |-> "json", data |-> data, timestamp |-> timestamp]

\* What the file system does with writeFileSync / mkdirSync.
WriteOutcomes == {"ok", "failed", "torn"}

\* getCache with the entry still valid at exactly the TTL.
getCache_LateExpiry(file, t) ==
  IF file.t = "absent" THEN JNull
  ELSE IF file.t = "corrupt" THEN JNull
  ELSE IF t - file.timestamp <= CACHE_DURATION_MS THEN file.data
  ELSE JNull

\* getCache without the try/catch: the SyntaxError of JSON.parse leaves it.
getCache_CorruptRaises(file, t) ==
  IF file.t = "absent" THEN JNull
  ELSE IF file.t = "corrupt" THEN Raised
  ELSE IF t - file.timestamp < CACHE_DURATION_MS THEN file.data
  ELSE JNull

\* getCache(key) on the file of key at time t = Date.now().
getCache(file, t) ==
  IF file.t = "absent" THEN JNull                       \* !existsSync
  ELSE IF file.t = "corrupt" THEN JNull                 \* JSON.parse throws, caught
  ELSE IF t - file.timestamp < CACHE_DURATION_MS THEN file.data
  ELSE JNull

\* setCache(key, data) at time t: the files afterwards.  A failed write is
\* caught and logged; it leaves the file as it was or torn.
setCache(fs, key, data, t, outcome) ==
  CASE outcome = "ok" -> [fs EXCEPT ![key] = CachedData(data, t)]
    [] outcome = "torn" -> [fs EXCEPT ![key] = Corrupt]
    [] OTHER -> fs

(***************************************************************************)
(* fetch.ts                                                                *)
(***************************************************************************)
DefaultRetries == 3
Statuses == {200, 404, 500, 503}
\* The statuses the endpoint of o answers with.
StatusesOf(o) == IF o = "fetchWithRetry" THEN Statuses ELSE {200, 404, 500}
Response(status, body) == [t |-> "response", status |-> status, body |-> body]
Ok(r) == r.status >= 200 /\ r.status <= 299           \* response.ok
RetryCounts == (-1) .. MaxRetries

\* for (let attempt = 1; attempt <= retries; attempt++)
LoopContinues(a, n) == a <= n

\* The retry condition without the bound on the attempt.
ShouldRetry_NoBound(a, n, status) == status >= 500
\* The retry condition without the status test, and with one pass too many.
ShouldRetry_Any(a, n, status) == a < n
ShouldRetry_OnePast(a, n, status) == a <= n /\ status >= 500

\* if (attempt < retries && response.status >= 500): wait and go round again
ShouldRetry(a, n, status) == a < n /\ status >= 500

(***************************************************************************)
(* liquidity.ts and downloads.ts: the accessors.  Each is named after its   *)
(* function and given as what the code after `await fetch...` does with    *)
(* what the fetch gave: the value returned (ret) and the value handed to   *)
(* setCache (store; None when setCache is not called).                     *)
(***************************************************************************)
Accessors ==
  {"fetchGitHubRelease", "fetchLiquidityData", "fetchOffers",
   "fetchProviderStats", "fetchProviderDailyBounds", "fetchDailyPriceStats",
   "fetchAurPackageVersion"}

\* The cache key(s) an accessor uses; fetchAurPackageVersion(packageName)
\* uses `aur-${packageName}`.
KeysOf(a) ==
  CASE a = "fetchGitHubRelease" -> {"github-release-latest"}
    [] a = "fetchLiquidityData" -> {"liquidity-daily"}
    [] a = "fetchOffers" -> {"offers-list"}
    [] a = "fetchProviderStats" -> {"provider-quote-stats"}
    [] a = "fetchProviderDailyBounds" -> {"provider-daily-swap-bounds"}
    [] a = "fetchDailyPriceStats" -> {"daily-price-stats"}
    [] a = "fetchAurPackageVersion" -> {"aur-eigenwallet-bin"}
    [] OTHER -> {}

\* liquidity.ts awaits fetchWithRetry(url); downloads.ts awaits fetch(url).
UsesFetchWithRetry(a) ==
  a \in {"fetchLiquidityData", "fetchOffers", "fetchProviderStats",
         "fetchProviderDailyBounds", "fetchDailyPriceStats"}

\* Payload items, with the fields the code reads.
OfferItems ==
  {[peerId |-> "p1", testnet |-> FALSE],
   [peerId |-> "p2", testnet |-> TRUE],
   [peerId |-> "p3", testnet |-> FALSE]}
ProviderItems ==
  {[peer_id |-> "p1", online_days |-> 1],
   [peer_id |-> "p2", online_days |-> 2]}
\* day is a YYYY-MM-DD string.
BoundItems ==
  {[peer_id |-> "p1", day |-> "2024-01-02"],
   [peer_id |-> "p1", day |-> "2024-01-01"],
   [peer_id |-> "p2", day |-> "2024-01-01"]}
\* The peerId getProviderHistoricalBounds is asked for; p3 has no bounds.
PeerIds == {"p1", "p2", "p3"}
LiquidityItems == {[date |-> 1, totalLiquidityBtc |-> 5]}
PriceItems ==
  {[date |-> 1, avg_price |-> 0],
   [date |-> 2, avg_price |-> 7]}
Release(tag) == [t |-> "release", tag_name |-> tag]
\* { results: [...] }, each result with its Version (JNull: no Version field)
AurInfo(versions) == [t |-> "aurinfo", results |-> versions]
NA == JStr("N/A")

Arrays(S) == {JArr(q) : q \in SeqsUpTo(S, MaxItems)}

\* The 200 bodies the endpoint of o can answer with.
Bodies(o) ==
  CASE o = "fetchGitHubRelease" -> {Malformed, JNull, Release("v1"), Release("v2")}
    [] o = "fetchLiquidityData" -> {Malformed, JNull} \cup Arrays(LiquidityItems)
    [] o = "fetchOffers" -> {Malformed, JObj} \cup Arrays(OfferItems)
    [] o = "fetchProviderStats" -> {Malformed, JObj} \cup Arrays(ProviderItems)
    [] o = "fetchProviderDailyBounds" -> {Malformed, JObj} \cup Arrays(BoundItems)
    [] o = "fetchDailyPriceStats" -> {Malformed, JObj} \cup Arrays(PriceItems)
    [] o = "fetchAurPackageVersion" ->
         {Malformed, JNull, JObj, AurInfo(<<>>), AurInfo(<<JNull>>),
          AurInfo(<<JStr("")>>), AurInfo(<<JStr("3.6.1")>>)}
    [] OTHER -> {NoBody}
Responses(o) ==
  {Response(st, NoBody) : st \in StatusesOf(o) \ {200}}
    \cup {Response(200, b) : b \in Bodies(o)}

Outcome(ret, store) == [ret |-> ret, store |-> store]
Unavailable == Outcome(JNull, None)
IsArray(b) == b.t = "array"
\* The fetch rejected, answered a non-ok status, or response.json() rejected.
NoData(r) == r = Raised \/ ~Ok(r) \/ r.body = Malformed

\* downloads.ts 40-50: no try; !response.ok throws.
fetchGitHubRelease(r) ==
  IF NoData(r) THEN Outcome(Raised, None)
  ELSE Outcome(r.body, r.body)

\* liquidity.ts 83-98
fetchLiquidityData(r) ==
  IF NoData(r) THEN Unavailable
  ELSE Outcome(r.body, r.body)

\* fetchOffers caching the payload as decoded, and fetchOffers with the filter
\* inverted.
fetchOffers_StoresRaw(r) ==
  IF NoData(r) THEN Unavailable
  ELSE IF ~IsArray(r.body) THEN Unavailable
  ELSE Outcome(JArr(SelectSeq(r.body.items, LAMBDA o : ~o.testnet)), r.body)

fetchOffers_KeepsTestnet(r) ==
  IF NoData(r) THEN Unavailable
  ELSE IF ~IsArray(r.body) THEN Unavailable
  ELSE LET mainnetOffers == JArr(SelectSeq(r.body.items, LAMBDA o : o.testnet))
       IN  Outcome(mainnetOffers, mainnetOffers)

\* liquidity.ts 229-246; data.filter of a non-array throws, caught.
fetchOffers(r) ==
  IF NoData(r) THEN Unavailable
  ELSE IF ~IsArray(r.body) THEN Unavailable
  ELSE LET mainnetOffers == JArr(SelectSeq(r.body.items, LAMBDA o : ~o.testnet))
       IN  Outcome(mainnetOffers, mainnetOffers)

\* fetchProviderStats keeping the providers seen on one day.
fetchProviderStats_KeepsOneDay(r) ==
  IF NoData(r) THEN Unavailable
  ELSE IF ~IsArray(r.body) THEN Unavailable
  ELSE LET filtered == JArr(SelectSeq(r.body.items, LAMBDA p : p.online_days >= 1))
       IN  Outcome(filtered, filtered)

\* fetchProviderStats answering a failure with an empty list.
fetchProviderStats_EmptyOnError(r) ==
  IF NoData(r) THEN Outcome(JArr(<<>>), None)
  ELSE IF ~IsArray(r.body) THEN Unavailable
  ELSE LET filtered == JArr(SelectSeq(r.body.items, LAMBDA p : p.online_days > 1))
       IN  Outcome(filtered, filtered)

\* liquidity.ts 297-316
fetchProviderStats(r) ==
  IF NoData(r) THEN Unavailable
  ELSE IF ~IsArray(r.body) THEN Unavailable
  ELSE LET filtered == JArr(SelectSeq(r.body.items, LAMBDA p : p.online_days > 1))
       IN  Outcome(filtered, filtered)

\* liquidity.ts 331-348
fetchProviderDailyBounds(r) ==
  IF NoData(r) THEN Unavailable
  ELSE Outcome(r.body, r.body)

\* liquidity.ts 499-516
fetchDailyPriceStats(r) ==
  IF NoData(r) THEN Unavailable
  ELSE Outcome(r.body, r.body)

\* data.results?.[0]?.Version ?? 'N/A'
AurVersion(data) ==
  IF data.t # "aurinfo" THEN NA                   \* no results field
  ELSE IF Len(data.results) = 0 THEN NA
  ELSE IF data.results[1] = JNull THEN NA         \* no Version field
  ELSE data.results[1]

\* fetchAurPackageVersion caching whatever version it found.
fetchAurPackageVersion_CachesNA(r) ==
  IF NoData(r) THEN Outcome(NA, None)
  ELSE IF r.body = JNull THEN Outcome(NA, None)
  ELSE LET version == AurVersion(r.body)
       IN  Outcome(version, version)

\* downloads.ts 329-339; data.results of null throws, caught.
fetchAurPackageVersion(r) ==
  IF NoData(r) THEN Outcome(NA, None)
  ELSE IF r.body = JNull THEN Outcome(NA, None)
  ELSE LET version == AurVersion(r.body)
       IN  Outcome(version, IF version # NA THEN version ELSE None)

AfterFetch(a, r) ==
  CASE a = "fetchGitHubRelease" -> fetchGitHubRelease(r)
    [] a = "fetchLiquidityData" -> fetchLiquidityData(r)
    [] a = "fetchOffers" -> fetchOffers(r)
    [] a = "fetchProviderStats" -> fetchProviderStats(r)
    [] a = "fetchProviderDailyBounds" -> fetchProviderDailyBounds(r)
    [] a = "fetchDailyPriceStats" -> fetchDailyPriceStats(r)
    [] a = "fetchAurPackageVersion" -> fetchAurPackageVersion(r)

\* liquidity.ts 522-548: the points generateBestPriceChart charts.
FALLBACK_SVG == [t |-> "fallback"]
Reverse(q) == [i \in 1..Len(q) |-> q[Len(q) + 1 - i]]
Svg(points) == [t |-> "svg", points |-> points]

\* generateBestPriceChart charting every entry.
generateBestPriceChart_NoFilter(priceData, rendered) ==
  IF ~IsArray(priceData) THEN Raised
  ELSE IF Len(priceData.items) = 0 THEN FALLBACK_SVG
  ELSE IF rendered THEN Svg(Reverse(priceData.items)) ELSE FALLBACK_SVG

\* rendered: vl.compile / view.toSVG did not throw.
generateBestPriceChart(priceData, rendered) ==
  IF ~IsArray(priceData) THEN Raised             \* priceData.filter is not a function
  ELSE IF Len(priceData.items) = 0 THEN FALLBACK_SVG
  ELSE LET validData == SelectSeq(priceData.items, LAMBDA d : d.avg_price > 0)
       IN  IF Len(validData) = 0 THEN FALLBACK_SVG
           ELSE IF rendered THEN Svg(Reverse(validData))
           ELSE FALLBACK_SVG

\* liquidity.ts 634-641
getBestPriceData(priceData, rendered) ==
  IF Truthy(priceData) THEN generateBestPriceChart(priceData, rendered)
  ELSE FALLBACK_SVG

\* new Date(day).getTime(), counted in days since 1970-01-01 instead of
\* milliseconds.
DateTime(day) ==
  CASE day = "2024-01-01" -> 19723
    [] day = "2024-01-02" -> 19724

\* Array.prototype.sort with (a, b) => new Date(a.day).getTime() -
\* new Date(b.day).getTime(): ascending, entries that compare equal keep
\* their order.
RECURSIVE InsertByDay(_, _)
InsertByDay(b, q) ==
  IF q = <<>> THEN <<b>>
  ELSE IF DateTime(b.day) - DateTime(Head(q).day) < 0 THEN <<b>> \o q
  ELSE <<Head(q)>> \o InsertByDay(b, Tail(q))
RECURSIVE SortByDay(_)
SortByDay(q) ==
  IF q = <<>> THEN <<>>
  ELSE InsertByDay(q[Len(q)], SortByDay(SubSeq(q, 1, Len(q) - 1)))

\* getProviderHistoricalBounds without the sort.
getProviderHistoricalBounds_Unsorted(bounds, peerId) ==
  IF ~Truthy(bounds) THEN JNull
  ELSE IF ~IsArray(bounds) THEN Raised
  ELSE JArr(SelectSeq(bounds.items, LAMBDA b : b.peer_id = peerId))

\* liquidity.ts 366-374, on what fetchProviderDailyBounds returned.
getProviderHistoricalBounds(bounds, peerId) ==
  IF ~Truthy(bounds) THEN JNull
  ELSE IF ~IsArray(bounds) THEN Raised          \* bounds.filter is not a function
  ELSE JArr(SortByDay(SelectSeq(bounds.items, LAMBDA b : b.peer_id = peerId)))

\* downloads.ts 271-286: the packages generateAurTable lists.
AurPackages == {"eigenwallet-bin", "eigenwallet-developertools-bin"}

\* One cache key for every package.
AurKey_Shared(packageName) == "aur-eigenwallet-bin"

\* const cacheKey = `aur-${packageName}`
AurKey(packageName) == "aur-" \o packageName

\* A fetchAurPackageVersion(pkg.name) of generateAurTable: pc is "idle",
\* "fetch" (await fetch), "json" (await response.json()) or "done".
Lookup(pc, fres, version, wrote, hit) ==
  [pc |-> pc, fres |-> fres, version |-> version, wrote |-> wrote, hit |-> hit]
NoLookups ==
  [p \in AurPackages |-> Lookup("idle", None, None, "none", FALSE)]

VARIABLES
  files,      \* [CacheKeys -> file content]: the .cache directory
  written,    \* per key, the last setCache that persisted: data, at, from
  now,        \* Date.now()
  ticks,      \* clock advances so far
  calls,      \* calls started so far
  op,         \* the function running: "idle", "getCache", "setCache",
              \* "fetchWithRetry", or an accessor
  key,        \* the cache key the running function uses
  pc,         \* where the running function is: "idle", "fetch", "done"
  fpc,        \* where its fetch is: "idle", "plain", "loop", "wait", "done"
  retries,    \* fetchWithRetry's parameter
  attempt,    \* fetchWithRetry's loop variable
  nAttempts,  \* HTTP requests issued by the running call
  seen,       \* statuses answered to the running call
  last,       \* the latest response answered to the running call
  waited,     \* backoff waits of the running call, in order
  rejected,   \* the latest request was rejected: no response, fetch threw
  fres,       \* what the fetch gave: a response, or Raised
  result,     \* what the running function returned
  hit,        \* the running accessor returned from the cache
  wrote,      \* the running call's setCache: "none" or a write outcome
  chart,      \* the chart getBestPriceData made of the accessor's result
  history,    \* what getProviderHistoricalBounds made of it, and for whom
  lookups,    \* per AUR package, the fetchAurPackageVersion generateAurTable
              \* started for it: where it is, what it fetched and returns
  apiRetries, \* API_RETRIES, read from the environment at load
  subject     \* the accessor this behaviour calls

vars ==
  <<files, written, now, ticks, calls, op, key, pc, fpc, retries, attempt,
    nAttempts, seen, last, waited, rejected, fres, result, hit, wrote, chart,
    history,
    lookups, apiRetries, subject>>

cacheVars == <<files, written>>
fetchVars ==
  <<fpc, retries, attempt, nAttempts, seen, last, waited, rejected, fres>>
callVars == <<op, key, pc, result, hit, wrote, chart, history>>

InitCommon ==
  /\ files = [k \in CacheKeys |-> Absent]
  /\ written = [k \in CacheKeys |-> None]
  /\ now = 0
  /\ ticks = 0
  /\ calls = 0
  /\ op = "idle"
  /\ key = "none"
  /\ pc = "idle"
  /\ fpc = "idle"
  /\ retries = 0
  /\ attempt = 0
  /\ nAttempts = 0
  /\ seen = {}
  /\ last = None
  /\ waited = <<>>
  /\ rejected = FALSE
  /\ fres = None
  /\ result = None
  /\ hit = FALSE
  /\ wrote = "none"
  /\ chart = None
  /\ history = None
  /\ lookups = NoLookups

\* The clock moves while nothing runs: by the TTL, or by 1 ms less.
\* The first call reads the clock first; time before it is the origin.
TickSteps == {CACHE_DURATION_MS - 1, CACHE_DURATION_MS}
Tick ==
  /\ op = "idle"
  /\ calls > 0
  /\ ticks < MaxTicks
  /\ \E d \in TickSteps : now' = now + d
  /\ ticks' = ticks + 1
  /\ UNCHANGED <<files, written, calls, lookups, apiRetries, subject>>
  /\ UNCHANGED fetchVars
  /\ UNCHANGED callVars

\* The running function has returned to its caller.
Return ==
  /\ pc = "done"
  /\ op' = "idle"
  /\ key' = "none"
  /\ pc' = "idle"
  /\ fpc' = "idle"
  /\ retries' = 0
  /\ attempt' = 0
  /\ nAttempts' = 0
  /\ seen' = {}
  /\ last' = None
  /\ waited' = <<>>
  /\ rejected' = FALSE
  /\ fres' = None
  /\ result' = None
  /\ hit' = FALSE
  /\ wrote' = "none"
  /\ chart' = None
  /\ history' = None
  /\ lookups' = NoLookups
  /\ UNCHANGED <<files, written, now, ticks, calls, apiRetries, subject>>

\* written after setCache(k, data) with write outcome o; from is the body the
\* data was made of.
Persisted(k, data, from, o) ==
  CASE o = "ok" -> [written EXCEPT ![k] = [data |-> data, at |-> now, from |-> from]]
    [] o = "torn" -> [written EXCEPT ![k] = None]
    [] OTHER -> written

(***************************************************************************)
(* The cache called directly.                                              *)
(***************************************************************************)
CacheValues == {JNull, JObj, JArr(<<>>), JStr("3.6.1")}
\* getCache and setCache treat every key alike (getCacheFilePath); two keys
\* show whether one key's entry reaches another's.
DirectKeys == {"offers-list", "aur-eigenwallet-bin"}

CallSetCache ==
  /\ op = "idle"
  /\ calls < MaxCalls
  /\ \E k \in DirectKeys, v \in CacheValues, o \in WriteOutcomes :
       /\ files' = setCache(files, k, v, now, o)
       /\ written' = Persisted(k, v, None, o)
       /\ key' = k
       /\ wrote' = o
  /\ op' = "setCache"
  /\ pc' = "done"
  /\ calls' = calls + 1
  /\ UNCHANGED <<now, ticks, result, hit, chart, history,
                 lookups, apiRetries, subject>>
  /\ UNCHANGED fetchVars

CallGetCache ==
  /\ op = "idle"
  /\ \E k \in DirectKeys :
       /\ key' = k
       /\ result' = getCache(files[k], now)
  /\ op' = "getCache"
  /\ pc' = "done"
  /\ UNCHANGED <<files, written, now, ticks, calls, hit, wrote, chart, history,
                 lookups, apiRetries, subject>>
  /\ UNCHANGED fetchVars

InitCache == InitCommon /\ apiRetries = DefaultRetries /\ subject = "none"
NextCache == CallSetCache \/ CallGetCache \/ Tick \/ Return
SpecCache == InitCache /\ [][NextCache]_vars

(***************************************************************************)
(* fetchWithRetry, one step per await.                                     *)
(***************************************************************************)
\* What the fetch hands to whoever awaits it: fetchWithRetry called directly
\* returns to the caller of the model, an accessor resumes later.
Settle(r) ==
  /\ fres' = r
  /\ fpc' = "done"
  /\ pc' = IF op = "fetchWithRetry" THEN "done" ELSE pc
  /\ result' = IF op = "fetchWithRetry" THEN r ELSE result

\* FetchAttempt with the fetch in a try whose catch waits and goes round
\* again while passes are left.
FetchAttempt_RetriesOnRaise ==
  /\ fpc = "loop"
  /\ LoopContinues(attempt, retries)
  /\ nAttempts' = nAttempts + 1
  /\ \/ \E r \in Responses(op) :
          /\ seen' = seen \cup {r.status}
          /\ last' = r
          /\ rejected' = FALSE
          /\ IF Ok(r) THEN Settle(r)
             ELSE IF ShouldRetry(attempt, retries, r.status)
               THEN fpc' = "wait" /\ UNCHANGED <<fres, pc, result>>
             ELSE Settle(r)
     \/ /\ rejected' = TRUE
        /\ UNCHANGED <<seen, last>>
        /\ IF attempt < retries
             THEN fpc' = "wait" /\ UNCHANGED <<fres, pc, result>>
             ELSE Settle(Raised)
  /\ UNCHANGED <<files, written, now, ticks, calls, op, key, retries,
                 attempt, waited, hit, wrote, chart, history,
                 lookups, apiRetries, subject>>

\* await fetch(url, options) inside the loop, and the loop body after it.
FetchAttempt ==
  /\ fpc = "loop"
  /\ LoopContinues(attempt, retries)
  /\ nAttempts' = nAttempts + 1
  /\ \/ \E r \in Responses(op) :
          /\ seen' = seen \cup {r.status}
          /\ last' = r
          /\ rejected' = FALSE
          /\ IF Ok(r) THEN Settle(r)
             ELSE IF ShouldRetry(attempt, retries, r.status)
               THEN fpc' = "wait" /\ UNCHANGED <<fres, pc, result>>
             ELSE Settle(r)
     \/ \* fetch rejects (network, DNS): the exception leaves fetchWithRetry
        /\ Settle(Raised)
        /\ rejected' = TRUE
        /\ UNCHANGED <<seen, last>>
  /\ UNCHANGED <<files, written, now, ticks, calls, op, key, retries,
                 attempt, waited, hit, wrote, chart, history,
                 lookups, apiRetries, subject>>

\* BackoffWait with the same delay after every attempt.
BackoffWait_Constant ==
  /\ fpc = "wait"
  /\ now' = now + BACKOFF_MS
  /\ waited' = Append(waited, BACKOFF_MS)
  /\ attempt' = attempt + 1
  /\ fpc' = "loop"
  /\ UNCHANGED <<files, written, ticks, calls, op, key, pc, retries,
                 nAttempts, seen, last, rejected, fres, result, hit, wrote,
                 chart, history,
                 lookups, apiRetries, subject>>

\* await new Promise(resolve => setTimeout(resolve, 1000 * attempt)); attempt++
BackoffWait ==
  /\ fpc = "wait"
  /\ now' = now + BACKOFF_MS * attempt
  /\ waited' = Append(waited, BACKOFF_MS * attempt)
  /\ attempt' = attempt + 1
  /\ fpc' = "loop"
  /\ UNCHANGED <<files, written, ticks, calls, op, key, pc, retries,
                 nAttempts, seen, last, rejected, fres, result, hit, wrote,
                 chart, history,
                 lookups, apiRetries, subject>>

\* return fetch(url, options) after the loop.
FetchFinal ==
  /\ fpc = "loop"
  /\ ~LoopContinues(attempt, retries)
  /\ nAttempts' = nAttempts + 1
  /\ \/ \E r \in Responses(op) :
          /\ seen' = seen \cup {r.status}
          /\ last' = r
          /\ rejected' = FALSE
          /\ Settle(r)
     \/ /\ Settle(Raised)
        /\ rejected' = TRUE
        /\ UNCHANGED <<seen, last>>
  /\ UNCHANGED <<files, written, now, ticks, calls, op, key, retries,
                 attempt, waited, hit, wrote, chart, history,
                 lookups, apiRetries, subject>>

\* fetchWithRetry(url, options, n) called directly.
CallFetchWithRetry ==
  /\ op = "idle"
  /\ calls < MaxCalls
  /\ \E n \in RetryCounts : retries' = n
  /\ op' = "fetchWithRetry"
  /\ pc' = "fetch"
  /\ fpc' = "loop"
  /\ attempt' = 1
  /\ calls' = calls + 1
  /\ UNCHANGED <<files, written, now, ticks, key, nAttempts, seen, last,
                 waited, rejected, fres, result, hit, wrote, chart, history,
                 lookups, apiRetries, subject>>

InitFetch == InitCommon /\ apiRetries = DefaultRetries /\ subject = "none"
NextFetch == CallFetchWithRetry \/ FetchAttempt \/ BackoffWait \/ FetchFinal \/ Return
SpecFetch == InitFetch /\ [][NextFetch]_vars

(***************************************************************************)
(* The accessors, one step per await.                                      *)
(***************************************************************************)
\* Where an accessor's caller goes on: getBestPriceData charts the result,
\* getProviderHistoricalBounds (the one caller of fetchProviderDailyBounds)
\* filters and sorts it.
AfterAccessor(a) ==
  CASE a = "fetchDailyPriceStats" -> "chart"
    [] a = "fetchProviderDailyBounds" -> "history"
    [] OTHER -> "done"

\* An accessor is called: getCache(key); on a truthy value return it, else
\* start the fetch.
Call ==
  /\ op = "idle"
  /\ calls < MaxCalls
  /\ \E a \in Accessors, k \in CacheKeys :
       /\ a = subject
       /\ k \in KeysOf(a)
       /\ op' = a
       /\ key' = k
       /\ LET cached == getCache(files[k], now)
          IN  IF Truthy(cached)
                THEN /\ hit' = TRUE
                     /\ result' = cached
                     /\ pc' = AfterAccessor(a)
                     /\ fpc' = "idle"
                     /\ UNCHANGED <<retries, attempt>>
                ELSE /\ hit' = FALSE
                     /\ result' = result
                     /\ pc' = "fetch"
                     /\ IF UsesFetchWithRetry(a)
                          THEN fpc' = "loop" /\ retries' = apiRetries /\ attempt' = 1
                          ELSE fpc' = "plain" /\ UNCHANGED <<retries, attempt>>
  /\ calls' = calls + 1
  /\ UNCHANGED <<files, written, now, ticks, nAttempts, seen, last, waited,
                 rejected, fres, wrote, chart, history,
                 lookups, apiRetries, subject>>

\* await fetch(url) in downloads.ts: one request, no retry.
PlainFetch ==
  /\ fpc = "plain"
  /\ nAttempts' = nAttempts + 1
  /\ \/ \E r \in Responses(op) :
          /\ seen' = seen \cup {r.status}
          /\ last' = r
          /\ rejected' = FALSE
          /\ Settle(r)
     \/ /\ Settle(Raised)
        /\ rejected' = TRUE
        /\ UNCHANGED <<seen, last>>
  /\ UNCHANGED <<files, written, now, ticks, calls, op, key, retries,
                 attempt, waited, hit, wrote, chart, history,
                 lookups, apiRetries, subject>>

\* Finish with a setCache that lets the error of writeFileSync out: the
\* accessor's catch (in downloads.ts, its caller) gets it.
Finish_WriteFailureFatal ==
  /\ op \in Accessors
  /\ pc = "fetch"
  /\ fpc = "done"
  /\ LET o == AfterFetch(op, fres)
     IN  IF o.store = None
           THEN result' = o.ret /\ wrote' = "none" /\ UNCHANGED <<files, written>>
           ELSE \E w \in WriteOutcomes :
                  /\ wrote' = w
                  /\ files' = setCache(files, key, o.store, now, w)
                  /\ written' = Persisted(key, o.store, fres.body, w)
                  /\ result' = IF w = "ok" THEN o.ret
                               ELSE AfterFetch(op, Raised).ret
  /\ pc' = AfterAccessor(op)
  /\ UNCHANGED <<now, ticks, calls, op, key, hit, chart, history,
                 lookups, apiRetries, subject>>
  /\ UNCHANGED fetchVars

\* The accessor resumes with what the fetch gave: decode, filter, setCache,
\* return.
Finish ==
  /\ op \in Accessors
  /\ pc = "fetch"
  /\ fpc = "done"
  /\ LET o == AfterFetch(op, fres)
     IN  /\ result' = o.ret
         /\ IF o.store = None
              THEN wrote' = "none" /\ UNCHANGED <<files, written>>
              ELSE \E w \in WriteOutcomes :
                     /\ wrote' = w
                     /\ files' = setCache(files, key, o.store, now, w)
                     /\ written' = Persisted(key, o.store, fres.body, w)
  /\ pc' = AfterAccessor(op)
  /\ UNCHANGED <<now, ticks, calls, op, key, hit, chart, history,
                 lookups, apiRetries, subject>>
  /\ UNCHANGED fetchVars

\* getBestPriceData goes on with generateBestPriceChart.
Chart ==
  /\ pc = "chart"
  /\ \E rendered \in BOOLEAN : chart' = getBestPriceData(result, rendered)
  /\ pc' = "done"
  /\ UNCHANGED <<files, written, now, ticks, calls, op, key, result, hit,
                 wrote, history, lookups, apiRetries, subject>>
  /\ UNCHANGED fetchVars

\* getProviderHistoricalBounds(peerId) goes on after its await.
GetProviderHistoricalBounds ==
  /\ pc = "history"
  /\ \E peerId \in PeerIds :
       history' = [peerId |-> peerId,
                   ret |-> getProviderHistoricalBounds(result, peerId)]
  /\ pc' = "done"
  /\ UNCHANGED <<files, written, now, ticks, calls, op, key, result, hit,
                 wrote, chart, lookups, apiRetries, subject>>
  /\ UNCHANGED fetchVars

(***************************************************************************)
(* generateAurTable: the lookups of Promise.all, one step per await.       *)
(***************************************************************************)
\* generateAurTable() is called: aurPackages.map runs each async callback up
\* to its first await, so both getCache reads happen before any response.
CallGenerateAurTable ==
  /\ op = "idle"
  /\ calls < MaxCalls
  /\ op' = "generateAurTable"
  /\ pc' = "join"
  /\ calls' = calls + 1
  /\ lookups' =
       [p \in AurPackages |->
          LET cached == getCache(files[AurKey(p)], now)
          IN  IF Truthy(cached)
                THEN Lookup("done", None, cached, "none", TRUE)
                ELSE Lookup("fetch", None, None, "none", FALSE)]
  /\ UNCHANGED <<files, written, now, ticks, key, result, hit, wrote, chart,
                 history, apiRetries, subject>>
  /\ UNCHANGED fetchVars

\* await fetch(...) of the lookup of p settles: rejected or not ok gives
\* 'N/A'; otherwise the lookup awaits response.json().
AurRespond(p) ==
  /\ op = "generateAurTable"
  /\ lookups[p].pc = "fetch"
  /\ \E r \in Responses("fetchAurPackageVersion") \cup {Raised} :
       lookups' =
         [lookups EXCEPT ![p] =
            IF r = Raised \/ ~Ok(r)
              THEN Lookup("done", r, fetchAurPackageVersion(r).ret, "none", FALSE)
              ELSE Lookup("json", r, None, "none", FALSE)]
  /\ UNCHANGED <<files, written, now, ticks, calls, apiRetries, subject>>
  /\ UNCHANGED fetchVars
  /\ UNCHANGED callVars

\* await response.json() of the lookup of p settles: version, setCache,
\* return.
AurDecode(p) ==
  /\ op = "generateAurTable"
  /\ lookups[p].pc = "json"
  /\ LET o == fetchAurPackageVersion(lookups[p].fres)
     IN  IF o.store = None
           THEN /\ lookups' = [lookups EXCEPT ![p].pc = "done", ![p].version = o.ret]
                /\ UNCHANGED <<files, written>>
           ELSE \E w \in WriteOutcomes :
                  /\ lookups' = [lookups EXCEPT ![p].pc = "done",
                                                ![p].version = o.ret,
                                                ![p].wrote = w]
                  /\ files' = setCache(files, AurKey(p), o.store, now, w)
                  /\ written' = Persisted(AurKey(p), o.store, lookups[p].fres.body, w)
  /\ UNCHANGED <<now, ticks, calls, apiRetries, subject>>
  /\ UNCHANGED fetchVars
  /\ UNCHANGED callVars

\* Promise.all resolves once every lookup has returned; the table shows each
\* package's version.
AurJoin ==
  /\ op = "generateAurTable"
  /\ pc = "join"
  /\ \A p \in AurPackages : lookups[p].pc = "done"
  /\ result' = [t |-> "table",
                versions |-> [p \in AurPackages |-> lookups[p].version]]
  /\ pc' = "done"
  /\ UNCHANGED <<files, written, now, ticks, calls, op, key, hit, wrote, chart,
                 history, lookups, apiRetries, subject>>
  /\ UNCHANGED fetchVars

InitAur == InitCommon /\ apiRetries = DefaultRetries /\ subject = "none"
NextAur ==
  \/ CallGenerateAurTable
  \/ \E p \in AurPackages : AurRespond(p)
  \/ \E p \in AurPackages : AurDecode(p)
  \/ AurJoin
  \/ Tick
  \/ Return
SpecAur == InitAur /\ [][NextAur]_vars

\* API_RETRIES = parseInt(process.env.API_RETRIES || '3', 10): no loop pass,
\* one pass, the default.
ApiRetries == {0, 1, DefaultRetries}

\* The accessors
\* share nothing but the clock and use pairwise different keys (KeysOf), so a
\* behaviour follows the calls of one of them.
Init ==
  /\ InitCommon
  /\ apiRetries \in ApiRetries
  /\ subject \in Accessors
Next ==
  \/ Call
  \/ PlainFetch
  \/ FetchAttempt
  \/ BackoffWait
  \/ FetchFinal
  \/ Finish
  \/ Chart
  \/ GetProviderHistoricalBounds
  \/ Tick
  \/ Return
Spec == Init /\ [][Next]_vars


(***************************************************************************)
(* Claims about the cache (SpecCache).                                     *)
(***************************************************************************)
\* C1: setCache(k, v) that persisted, followed by getCache(k): while
\* now - timestamp < TTL getCache returns v; once now - timestamp >= TTL
\* (exactly TTL included) it returns null.
C1_CacheTTL ==
  (op = "getCache" /\ pc = "done" /\ written[key] # None) =>
    result = IF now - written[key].at < CACHE_DURATION_MS
               THEN written[key].data
               ELSE JNull

\* getCache one millisecond before the entry expires returns the value set.
C1_Witness ==
  /\ op = "getCache"
  /\ pc = "done"
  /\ written[key] # None
  /\ now - written[key].at = CACHE_DURATION_MS - 1
  /\ result = JStr("3.6.1")

\* getCache at exactly the TTL returns null although the entry is on disk.
C1_WitnessExpired ==
  /\ op = "getCache"
  /\ pc = "done"
  /\ written[key] # None
  /\ written[key].data = JStr("3.6.1")
  /\ now - written[key].at = CACHE_DURATION_MS
  /\ result = JNull

(***************************************************************************)
(* Claims about fetchWithRetry (SpecFetch).                                *)
(***************************************************************************)
\* The running call was answered, and with a 5xx status every time.
Always5xx == seen # {} /\ \A st \in seen : st >= 500
FetchReturned == op = "fetchWithRetry" /\ pc = "done" /\ fres # Raised

C2_WitnessZero ==
  /\ FetchReturned
  /\ Always5xx
  /\ retries = 0
  /\ nAttempts = 1

\* C3: a non-success answer below 500 is returned at once: the call is over,
\* that response is its result, every attempt before it was a retried 5xx,
\* and a 404 on the first attempt makes exactly one attempt.
C3_NoRetryOnNon5xx ==
  (op = "fetchWithRetry" /\ \E st \in seen : st < 500 /\ ~(st >= 200 /\ st <= 299)) =>
    /\ fpc = "done"
    /\ fres = last
    /\ fres.status < 500
    /\ nAttempts = Len(waited) + 1
    /\ \A st \in seen \ {fres.status} : st >= 500
    /\ (\A st \in seen : st < 500) => nAttempts = 1

C3_Witness ==
  /\ op = "fetchWithRetry"
  /\ pc = "done"
  /\ retries = DefaultRetries
  /\ seen = {404}
  /\ nAttempts = 1
  /\ result = Response(404, NoBody)

\* A 404 that follows a retried 503 ends the call too.
C3_WitnessSecond ==
  /\ op = "fetchWithRetry"
  /\ pc = "done"
  /\ seen = {503, 404}
  /\ nAttempts = 2
  /\ waited = <<BACKOFF_MS>>
  /\ result = Response(404, NoBody)

(***************************************************************************)
(* Claims about the accessors (Spec).                                      *)
(***************************************************************************)
AccessorDone == op \in Accessors /\ pc = "done"
\* The fetch of the running call was answered 200 with a body that decodes.
FetchedData == ~hit /\ fres # Raised /\ Ok(fres) /\ fres.body # Malformed

\* C4: fetchProviderStats keeps unavailable and empty apart: 500 on every
\* attempt gives null, 200 with [] gives [], and so does a later call served
\* from the entry that [] made.
C4_UnavailableVsEmpty ==
  (op = "fetchProviderStats" /\ pc = "done") =>
    /\ (~hit /\ fres # Raised /\ seen = {500}) => result = JNull
    /\ (~hit /\ fres = Response(200, JArr(<<>>))) => result = JArr(<<>>)
    /\ (hit /\ written[key] # None /\ written[key].from = JArr(<<>>)) =>
         result = JArr(<<>>)

C4_Witness ==
  /\ op = "fetchProviderStats"
  /\ pc = "done"
  /\ hit
  /\ written[key] # None
  /\ written[key].from = JArr(<<>>)
  /\ result = JArr(<<>>)

\* 500 on each of the three default attempts: null.
C4_WitnessUnavailable ==
  /\ op = "fetchProviderStats"
  /\ pc = "done"
  /\ ~hit
  /\ seen = {500}
  /\ nAttempts = DefaultRetries
  /\ result = JNull

\* C5: no accessor lets a failure escape: whatever the endpoint does, the
\* accessor returns a value and raises nothing.
C5_NoFailureEscapes == AccessorDone => result # Raised

\* C6: the cache is advisory.  A call served from the cache returns what the
\* accessor computes, cache or no cache, from the body that made the entry;
\* a call that fetched returns what it computes from the response.
NoCacheResult(a, r) == AfterFetch(a, r).ret
C6_CacheAdvisory ==
  AccessorDone =>
    /\ hit => /\ written[key] # None
              /\ result = NoCacheResult(op, Response(200, written[key].from))
    /\ ~hit => result = NoCacheResult(op, fres)

C6_Witness ==
  /\ op = "fetchOffers"
  /\ pc = "done"
  /\ hit
  /\ written[key] # None
  /\ \E i \in 1..Len(written[key].from.items) : written[key].from.items[i].testnet
  /\ Len(result.items) = 1

\* C7: an entry is created or overwritten only by a successful, cacheable
\* fetch: a step that changes a cache file is an accessor's step after a 200
\* whose body decoded, the accessor does not return a failure (for the AUR
\* accessor, not 'N/A'), and only that accessor's key changes; and a call
\* served from the cache never returns a failure result.
C7_WriteOnlyOnSuccess ==
  /\ [](hit => result \notin {JNull, Raised, NA})
  /\ [][files' # files =>
          /\ op \in Accessors
          /\ pc = "fetch"
          /\ fpc = "done"
          /\ fres # Raised
          /\ Ok(fres)
          /\ fres.body # Malformed
          /\ result' # Raised
          /\ (op = "fetchAurPackageVersion" => result' # NA)
          /\ \A k \in CacheKeys \ {key} : files'[k] = files[k]]_vars

\* A failed refresh (the entry had expired) left the entry as it was.
C7_Witness ==
  /\ op = "fetchProviderStats"
  /\ pc = "done"
  /\ ~hit
  /\ seen = {500}
  /\ result = JNull
  /\ wrote = "none"
  /\ written[key] # None
  /\ files[key] = CachedData(written[key].data, written[key].at)
  /\ now - written[key].at >= CACHE_DURATION_MS

\* 'N/A' is not cached: no version in the 200 body, no entry.
C7_WitnessAur ==
  /\ op = "fetchAurPackageVersion"
  /\ pc = "done"
  /\ fres = Response(200, AurInfo(<<>>))
  /\ result = NA
  /\ files[key] = Absent

\* C8: fetchOffers returns exactly the testnet: false entries of the payload,
\* in the payload's order, and the cached value holds no testnet entry.
RECURSIVE MainnetOf(_)
MainnetOf(q) ==
  IF q = <<>> THEN <<>>
  ELSE IF Head(q).testnet THEN MainnetOf(Tail(q))
  ELSE <<Head(q)>> \o MainnetOf(Tail(q))
NoTestnet(v) == IsArray(v) /\ \A i \in 1..Len(v.items) : ~v.items[i].testnet

C8_MainnetOnly ==
  /\ files["offers-list"].t = "json" => NoTestnet(files["offers-list"].data)
  /\ (op = "fetchOffers" /\ pc = "done") =>
       /\ (FetchedData /\ IsArray(fres.body)) =>
            result = JArr(MainnetOf(fres.body.items))
       /\ wrote = "ok" => files[key].data = result
       /\ hit => /\ NoTestnet(result)
                 /\ written[key] # None
                 /\ result = JArr(MainnetOf(written[key].from.items))

C8_Witness ==
  /\ op = "fetchOffers"
  /\ pc = "done"
  /\ FetchedData
  /\ fres.body = JArr(<<[peerId |-> "p2", testnet |-> TRUE],
                        [peerId |-> "p3", testnet |-> FALSE]>>)
  /\ wrote = "ok"
  /\ result = JArr(<<[peerId |-> "p3", testnet |-> FALSE]>>)

\* C9 as stated: after a successful fetch neither the value cached under
\* daily-price-stats nor the value returned holds an entry whose price is 0.
NoZeroPrice(v) ==
  IsArray(v) => \A i \in 1..Len(v.items) : v.items[i].avg_price # 0
C9_CacheDropsZeroPrices ==
  (op = "fetchDailyPriceStats" /\ pc = "done" /\ FetchedData /\ wrote = "ok") =>
    /\ NoZeroPrice(result)
    /\ NoZeroPrice(files[key].data)

\* C9 amended: the accessor caches and returns the payload as decoded; the
\* zero-valued points are dropped by generateBestPriceChart, so the chart
\* holds the entries of that value with avg_price > 0, in reverse order, and
\* no other.
RECURSIVE PositivePrices(_)
PositivePrices(q) ==
  IF q = <<>> THEN <<>>
  ELSE IF Head(q).avg_price > 0 THEN <<Head(q)>> \o PositivePrices(Tail(q))
  ELSE PositivePrices(Tail(q))
C9_ChartDropsZeroPrices ==
  (op = "fetchDailyPriceStats" /\ pc = "done") =>
    /\ FetchedData => result = fres.body
    /\ wrote = "ok" => files[key].data = fres.body
    /\ chart.t = "svg" =>
         /\ \A i \in 1..Len(chart.points) : chart.points[i].avg_price > 0
         /\ chart.points = Reverse(PositivePrices(result.items))
    /\ (IsArray(result) /\ PositivePrices(result.items) = <<>>) =>
         chart = FALLBACK_SVG

\* The cached payload keeps its zero-priced entry; the chart made of it has
\* only the other one.
C9_Witness ==
  /\ op = "fetchDailyPriceStats"
  /\ pc = "done"
  /\ hit
  /\ result = JArr(<<[date |-> 1, avg_price |-> 0], [date |-> 2, avg_price |-> 7]>>)
  /\ chart = Svg(<<[date |-> 2, avg_price |-> 7]>>)

\* C10: every accessor fetches through fetchWithRetry: an endpoint that
\* answers 5xx every time is asked the configured number of times (once when
\* that number is below 1) before the accessor reports failure.
C10_AllAccessorsRetry ==
  (AccessorDone /\ ~hit /\ fres # Raised /\ Always5xx) =>
    nAttempts = (IF apiRetries >= 1 THEN apiRetries ELSE 1)

\* What holds instead: the accessors of liquidity.ts retry, those of
\* downloads.ts ask once.
C10_OnlyLiquidityRetries ==
  (AccessorDone /\ ~hit /\ fres # Raised /\ Always5xx) =>
    nAttempts = (IF UsesFetchWithRetry(op) /\ apiRetries >= 1 THEN apiRetries ELSE 1)

(***************************************************************************)
(* Claims about failures of the cache itself (Spec).                       *)
(***************************************************************************)
\* What the first step of an accessor leaves when nothing is cached: a miss,
\* nothing returned, the fetch about to start, no request issued yet.
ColdStart(a) ==
  /\ ~hit'
  /\ result' = None
  /\ pc' = "fetch"
  /\ fpc' = (IF UsesFetchWithRetry(a) THEN "loop" ELSE "plain")
  /\ nAttempts' = 0
  /\ files' = files

\* C11: a record that does not decode counts as absent: getCache returns
\* null for it and raises nothing, and an accessor called while its record is
\* corrupt starts its fetch exactly as it does when there is no record.
C11_CorruptIsAbsent ==
  /\ [](\A k \in CacheKeys :
          files[k] = Corrupt => getCache(files[k], now) = getCache(Absent, now))
  /\ []((op \in Accessors /\ files[key] = Corrupt) => ~hit)
  /\ [][(op = "idle" /\ op' \in Accessors /\ files[key'] \in {Corrupt, Absent})
          => ColdStart(op')]_vars

\* The second call finds the record the first call's torn write left and is
\* about to fetch.
C11_Witness ==
  /\ op = "fetchOffers"
  /\ calls = 2
  /\ files[key] = Corrupt
  /\ pc = "fetch"
  /\ fpc = "loop"
  /\ nAttempts = 0
  /\ ~hit

\* ... and that call goes on to return what it fetched.
C11_WitnessFetched ==
  /\ op = "fetchOffers"
  /\ calls = 2
  /\ pc = "done"
  /\ ~hit
  /\ wrote = "failed"
  /\ files[key] = Corrupt
  /\ result = JArr(<<[peerId |-> "p1", testnet |-> FALSE]>>)


\* C12: a cache write that fails is not fatal: setCache raises nothing, the
\* accessor returns the data it fetched (filtered where it filters), the
\* value it returns when the write succeeds, and a write that did not reach
\* the disk leaves the files as they were.
C12_WriteFailureNonFatal ==
  /\ []((AccessorDone /\ wrote \in {"failed", "torn"}) =>
          /\ FetchedData
          /\ result # Raised
          /\ result = AfterFetch(op, fres).ret)
  /\ [][(wrote = "none" /\ wrote' # "none") =>
          /\ result' = AfterFetch(op, fres).ret
          /\ wrote' = "failed" => files' = files]_vars

\* mkdirSync or writeFileSync failed, nothing is cached, and fetchProviderStats
\* returns the filtered payload.
C12_Witness ==
  /\ op = "fetchProviderStats"
  /\ pc = "done"
  /\ wrote = "failed"
  /\ files[key] = Absent
  /\ fres = Response(200, JArr(<<[peer_id |-> "p1", online_days |-> 1],
                                 [peer_id |-> "p2", online_days |-> 2]>>))
  /\ result = JArr(<<[peer_id |-> "p2", online_days |-> 2]>>)


(***************************************************************************)
(* Claims about what the accessors' callers get (Spec).                    *)
(***************************************************************************)
\* How often entry b occurs in sequence q.
Occurrences(b, q) == Cardinality({i \in 1..Len(q) : q[i] = b})

\* C13: getProviderHistoricalBounds(peerId) returns null exactly when
\* fetchProviderDailyBounds gave null; of a list it returns the entries of
\* peerId, each as often as the list has it and no other, in ascending order
\* of day whatever the order of the list; the empty list when the list has
\* no entry of peerId.
C13_HistoricalBoundsSorted ==
  (op = "fetchProviderDailyBounds" /\ pc = "done") =>
    /\ history.ret = JNull <=> result = JNull
    /\ IsArray(result) =>
         /\ IsArray(history.ret)
         /\ \A i \in 1..Len(history.ret.items) :
              history.ret.items[i].peer_id = history.peerId
         /\ \A i \in 1..(Len(history.ret.items) - 1) :
              ~(DateTime(history.ret.items[i].day)
                  > DateTime(history.ret.items[i + 1].day))
         /\ \A b \in BoundItems :
              Occurrences(b, history.ret.items) =
                (IF b.peer_id = history.peerId
                   THEN Occurrences(b, result.items) ELSE 0)
         /\ (\A i \in 1..Len(result.items) :
               result.items[i].peer_id # history.peerId) =>
              history.ret = JArr(<<>>)

\* The payload lists the later day first; the caller gets the earlier first.
C13_Witness ==
  /\ op = "fetchProviderDailyBounds"
  /\ pc = "done"
  /\ result = JArr(<<[peer_id |-> "p1", day |-> "2024-01-02"],
                     [peer_id |-> "p1", day |-> "2024-01-01"]>>)
  /\ history = [peerId |-> "p1",
                ret |-> JArr(<<[peer_id |-> "p1", day |-> "2024-01-01"],
                               [peer_id |-> "p1", day |-> "2024-01-02"]>>)]

\* Another peer's entry is left out, also when the list came from the cache.
C13_WitnessOtherPeer ==
  /\ op = "fetchProviderDailyBounds"
  /\ pc = "done"
  /\ hit
  /\ result = JArr(<<[peer_id |-> "p2", day |-> "2024-01-01"],
                     [peer_id |-> "p1", day |-> "2024-01-02"]>>)
  /\ history = [peerId |-> "p1",
                ret |-> JArr(<<[peer_id |-> "p1", day |-> "2024-01-02"]>>)]

\* The base accessor is unavailable: null, and for a peer without bounds [].
C13_WitnessNull ==
  /\ op = "fetchProviderDailyBounds"
  /\ pc = "done"
  /\ seen = {500}
  /\ result = JNull
  /\ history.ret = JNull
C13_WitnessEmpty ==
  /\ op = "fetchProviderDailyBounds"
  /\ pc = "done"
  /\ IsArray(result)
  /\ Len(result.items) = 2
  /\ history = [peerId |-> "p3", ret |-> JArr(<<>>)]


\* C14: fetchProviderStats returns, and caches, exactly the providers of the
\* payload with online_days > 1, in the payload's order; a provider with
\* online_days <= 1 is neither returned nor cached, on a fetch or on a hit.
RECURSIVE OnlineMoreThanADay(_)
OnlineMoreThanADay(q) ==
  IF q = <<>> THEN <<>>
  ELSE IF Head(q).online_days > 1 THEN <<Head(q)>> \o OnlineMoreThanADay(Tail(q))
  ELSE OnlineMoreThanADay(Tail(q))
NoOneDayProvider(v) ==
  IsArray(v) /\ \A i \in 1..Len(v.items) : ~(v.items[i].online_days <= 1)

C14_ProvidersOnlineMoreThanADay ==
  /\ files["provider-quote-stats"].t = "json" =>
       NoOneDayProvider(files["provider-quote-stats"].data)
  /\ (op = "fetchProviderStats" /\ pc = "done") =>
       /\ result # JNull => NoOneDayProvider(result)
       /\ (FetchedData /\ IsArray(fres.body)) =>
            result = JArr(OnlineMoreThanADay(fres.body.items))
       /\ wrote = "ok" => files[key].data = result
       /\ hit => /\ written[key] # None
                 /\ result = JArr(OnlineMoreThanADay(written[key].from.items))

\* The provider seen on one day only is dropped from what is returned and
\* cached.
C14_Witness ==
  /\ op = "fetchProviderStats"
  /\ pc = "done"
  /\ fres = Response(200, JArr(<<[peer_id |-> "p2", online_days |-> 2],
                                 [peer_id |-> "p1", online_days |-> 1]>>))
  /\ wrote = "ok"
  /\ result = JArr(<<[peer_id |-> "p2", online_days |-> 2]>>)
  /\ files[key].data = result

\* A later call served from the cache returns the filtered list.
C14_WitnessHit ==
  /\ op = "fetchProviderStats"
  /\ pc = "done"
  /\ hit
  /\ written[key] # None
  /\ written[key].from = JArr(<<[peer_id |-> "p1", online_days |-> 1],
                                [peer_id |-> "p2", online_days |-> 2]>>)
  /\ result = JArr(<<[peer_id |-> "p2", online_days |-> 2]>>)


(***************************************************************************)
(* Claims about calls that follow one another (Spec).                      *)
(***************************************************************************)
\* The running accessor was called with an entry of an earlier call on disk
\* and has not asked the endpoint (yet).  No time passes in a call before its
\* first request, so now is the time of its getCache.
CalledWithEntry ==
  /\ op \in Accessors
  /\ written[key] # None
  /\ nAttempts = 0
EntryAge == now - written[key].at

\* C15: once a call has fetched and cached its result, a later call of the
\* same accessor made while now - timestamp < TTL returns the cached value
\* and issues no request; a call made once the TTL has elapsed misses and
\* issues a request.
C15_FreshEntryServed ==
  /\ (CalledWithEntry /\ EntryAge < CACHE_DURATION_MS) =>
       /\ hit
       /\ result = written[key].data
  /\ (CalledWithEntry /\ EntryAge >= CACHE_DURATION_MS) =>
       /\ ~hit
       /\ fpc \in {"loop", "plain"}
  /\ (op \in Accessors /\ hit) => (nAttempts = 0 /\ fpc = "idle")
  /\ (AccessorDone /\ ~hit) => nAttempts >= 1

\* What holds instead: the accessors test the cached value with if (cached),
\* so the fresh entry is served when its value is truthy and a fresh entry
\* holding null or '' is fetched again.
C15_TruthyEntryServed ==
  /\ (CalledWithEntry /\ EntryAge < CACHE_DURATION_MS) =>
       IF Truthy(written[key].data)
         THEN hit /\ result = written[key].data
         ELSE ~hit /\ fpc \in {"loop", "plain"}
  /\ (CalledWithEntry /\ EntryAge >= CACHE_DURATION_MS) =>
       /\ ~hit
       /\ fpc \in {"loop", "plain"}
  /\ (op \in Accessors /\ hit) => (nAttempts = 0 /\ fpc = "idle")
  /\ (AccessorDone /\ ~hit) => nAttempts >= 1


(***************************************************************************)
(* Claims about the number and order of fetchWithRetry's requests         *)
(* (SpecFetch).                                                            *)
(***************************************************************************)
\* The call ended in the fetch placed after the loop: the loop variable has
\* passed the retry count.
ThroughFinalFetch == fpc = "done" /\ ~LoopContinues(attempt, retries)

C16_WitnessZero ==
  /\ op = "fetchWithRetry"
  /\ pc = "done"
  /\ retries = 0
  /\ nAttempts = 1
  /\ result = Response(404, NoBody)
  /\ ThroughFinalFetch


\* C17: a request rejected at transport level ends the call: the failure is
\* what the call gives its caller, at once; the rejected request is the
\* call's last, no backoff wait comes after it and the only step left is the
\* return to the caller; and the call raises for no other reason: an HTTP
\* status, whatever it is, comes back as a response.
C17_TransportFailureTerminal ==
  /\ [](op = "fetchWithRetry" =>
          /\ rejected => (fres = Raised /\ fpc = "done" /\ pc = "done"
                            /\ result = Raised)
          /\ fres = Raised => (rejected /\ nAttempts = Len(waited) + 1)
          /\ (pc = "done" /\ ~rejected) => (result = last /\ result # Raised))
  /\ [][(op = "fetchWithRetry" /\ rejected) => op' = "idle"]_vars

\* The second attempt, made after the backoff that followed a 503, is
\* rejected: two requests, one wait, the failure raised.
C17_Witness ==
  /\ op = "fetchWithRetry"
  /\ retries = DefaultRetries
  /\ rejected
  /\ seen = {503}
  /\ nAttempts = 2
  /\ waited = <<BACKOFF_MS>>
  /\ result = Raised

\* A 500 on the last pass is returned, not raised.
C17_WitnessStatus ==
  /\ op = "fetchWithRetry"
  /\ pc = "done"
  /\ retries = 1
  /\ nAttempts = 1
  /\ ~rejected
  /\ result = Response(500, NoBody)


\* C18: the order of requests and waits.  Request k+1 is issued only when
\* request k was answered with a status >= 500 and the wait that followed,
\* of 1000 ms x k, is over (the k-th wait of the call is 1000 ms x k and the
\* clock has moved by it); no wait comes before the first request, none
\* after the request whose response is returned.
C18_BackoffOrdering ==
  /\ [](op = "fetchWithRetry" =>
          /\ \A k \in 1..Len(waited) : waited[k] = BACKOFF_MS * k
          /\ nAttempts = 0 => waited = <<>>
          /\ fpc = "wait" => (Len(waited) = nAttempts - 1 /\ last.status >= 500)
          /\ pc = "done" => Len(waited) = nAttempts - 1)
  /\ [][(op = "fetchWithRetry" /\ nAttempts' = nAttempts + 1) =>
          /\ Len(waited) = nAttempts
          /\ waited' = waited
          /\ nAttempts >= 1 => last.status >= 500]_vars
  /\ [][(op = "fetchWithRetry" /\ Len(waited') = Len(waited) + 1) =>
          /\ fpc = "wait"
          /\ nAttempts' = nAttempts
          /\ now' = now + BACKOFF_MS * nAttempts]_vars

\* Three requests, each answered 5xx: 1 s after the first, 2 s after the
\* second, nothing after the third, whose response is returned.
C18_Witness ==
  /\ op = "fetchWithRetry"
  /\ pc = "done"
  /\ nAttempts = 3
  /\ waited = <<BACKOFF_MS, 2 * BACKOFF_MS>>
  /\ now = 3 * BACKOFF_MS
  /\ result = Response(500, NoBody)

\* A success on the second request: one wait, before it.
C18_WitnessSuccess ==
  /\ op = "fetchWithRetry"
  /\ pc = "done"
  /\ nAttempts = 2
  /\ waited = <<BACKOFF_MS>>
  /\ result = Response(200, NoBody)


(***************************************************************************)
(* Claims about the concurrent lookups of generateAurTable (SpecAur).      *)
(***************************************************************************)
TableDone == op = "generateAurTable" /\ pc = "done"

\* C19: the lookups generateAurTable runs concurrently use pairwise distinct
\* cache keys; so, however their steps interleave, no two of them write the
\* same key (a step that changes the files is one lookup's setCache and
\* changes that lookup's key only), and after the join the entry of each
\* lookup that wrote holds the version that lookup fetched, which is also the
\* version the table shows for its package.
C19_DistinctAurKeys ==
  /\ [](\A p, q \in AurPackages :
          /\ p # q => AurKey(p) # AurKey(q)
          /\ (p # q /\ lookups[p].wrote # "none" /\ lookups[q].wrote # "none") =>
               AurKey(p) # AurKey(q))
  /\ [][files' # files =>
          \E p \in AurPackages :
            /\ lookups[p].pc = "json"
            /\ lookups'[p].pc = "done"
            /\ \A q \in AurPackages \ {p} : lookups'[q] = lookups[q]
            /\ \A k \in CacheKeys \ {AurKey(p)} : files'[k] = files[k]]_vars
  /\ [](TableDone =>
          \A p \in AurPackages :
            /\ result.versions[p] = lookups[p].version
            /\ lookups[p].wrote = "ok" =>
                 /\ files[AurKey(p)].t = "json"
                 /\ files[AurKey(p)].data = lookups[p].version
                 /\ lookups[p].version = AurVersion(lookups[p].fres.body))

\* Both lookups were awaiting their response at the same time, both wrote,
\* and each entry holds its own lookup's version.
C19_Witness ==
  /\ TableDone
  /\ lookups["eigenwallet-bin"].wrote = "ok"
  /\ lookups["eigenwallet-developertools-bin"].wrote = "ok"
  /\ lookups["eigenwallet-bin"].fres.body = AurInfo(<<JStr("3.6.1")>>)
  /\ lookups["eigenwallet-developertools-bin"].fres.body = AurInfo(<<JStr("")>>)
  /\ files["aur-eigenwallet-bin"].data = JStr("3.6.1")
  /\ files["aur-eigenwallet-developertools-bin"].data = JStr("")

\* The lookups overlap: one has its response and awaits the body while the
\* other still awaits its response, in either order.
C19_WitnessInterleaved ==
  /\ op = "generateAurTable"
  /\ lookups["eigenwallet-bin"].pc = "fetch"
  /\ lookups["eigenwallet-developertools-bin"].pc = "json"


====
